---------------------------- MODULE Spec2Model ----------------------------
(***************************************************************************)
(* GitMetrics-TeamBuilder: the GraphQL execution client                    *)
(* (app/github_query/github_graphql/client.py) and the cost probe          *)
(* (app/github_query/queries/costs/query_cost.py).                         *)
(*                                                                         *)
(* A caller constructs a Client, builds one query document (plain or       *)
(* paginated) and executes it.  Every HTTP attempt is one step whose       *)
(* outcome (timeout, network error, a response) the server chooses.        *)
(***************************************************************************)
EXTENDS Integers, Sequences, FiniteSets, TLC

(***************************************************************************)
(* Bounds of the model.                                                    *)
(***************************************************************************)
MaxRetry == 3
MaxPages == 2
MaxExecutes == 2
MaxBodyLen == 3

(***************************************************************************)
(* Values.                                                                 *)
(***************************************************************************)
None == "None"

\* retry_attempts is an unchecked constructor argument (client.py:56,76).
RetryChoices == 0..MaxRetry

\* Wall clock (seconds) at the start of a run.
Now0 == 20

\* resetAt texts "MM:SS" of the format the probe reports, as <<MM, SS>>;
\* <<0, 75>> is not a valid time.
ResetAts == {<<0, 5>>, <<0, 30>>, <<1, 10>>, <<0, 75>>}
Costs == {1, 40}
Remainings == {3, 100, 120, 130}

Cursors == {"C1", "C2", None}

\* The response path of the paginated document (PaginatedQuery.path).
DocPath == <<"user", "items">>

\* ---- response bodies (the wire text, identified with what it decodes to) ----
Undecodable == [undecodable |-> "<html>Bad Gateway</html>"]
NotFoundBody == [message |-> "Not Found"]
ErrorsOnly == [errors |-> "NOT_FOUND"]

RateLimitBody(c, r, t) ==
    [data |-> [rateLimit |-> [cost |-> c, remaining |-> r, resetAt |-> t]]]

\* a 200 probe answer that has data but no rateLimit under it
NoRateLimitBody == [data |-> [viewer |-> [login |-> "octocat"]]]

\* a 200 probe answer that carries both an errors key and a rate limit
RateLimitWithErrors ==
    [data |-> [rateLimit |-> [cost |-> 1, remaining |-> 100, resetAt |-> <<0, 30>>]],
     errors |-> "NOT_FOUND"]

PlainData == {[user |-> [login |-> "octocat"]], [user |-> [login |-> "hubot"]]}

PageData(c, h) ==
    [user |-> [items |-> [pageInfo |-> [endCursor |-> c, hasNextPage |-> h]]]]

\* page payloads whose path or pageInfo does not resolve
BadPageData ==
    { [user |-> [login |-> "octocat"]],
      [user |-> [items |-> [totalCount |-> 0]]],
      [user |-> [items |-> [pageInfo |-> [endCursor |-> "C1"]]]] }

GoodPageData == {PageData(c, h) : c \in Cursors, h \in BOOLEAN}

Response(s, b) == [status |-> s, body |-> b]

\* `response = None` before the first answer (client.py:125)
NoResponse == [status |-> 0, body |-> [none |-> TRUE]]

FailStatuses == {404, 502}

FailResponses ==
    {Response(404, NotFoundBody), Response(502, Undecodable)}

ProbeResponses ==
    {Response(200, RateLimitBody(c, r, t)) :
         c \in Costs, r \in Remainings, t \in ResetAts}
    \cup {Response(200, b) :
            b \in {NoRateLimitBody, RateLimitWithErrors, ErrorsOnly, Undecodable}}
    \cup FailResponses

QueryResponses(kind) ==
    {Response(200, [data |-> d]) :
         d \in IF kind = "plain" THEN PlainData ELSE GoodPageData \cup BadPageData}
    \cup {Response(200, [data |-> d, errors |-> "FORBIDDEN"]) :
            d \in IF kind = "plain" THEN PlainData ELSE {PageData("C1", TRUE)}}
    \cup {Response(200, b) : b \in {ErrorsOnly, NotFoundBody, Undecodable}}
    \cup FailResponses

\* what one requests.post can end in (client.py:128-138)
Timeout == [t |-> "timeout"]
NetError == [t |-> "neterr"]
Answer(r) == [t |-> "resp", resp |-> r]

VARIABLES
    client,          \* "none" | "ok" | "InvalidAuthenticationError"
    authenticator,   \* the authenticator argument: "token" or None
    retry_attempts,  \* Client._retry_attempts
    doc,             \* kind of the query document: "none" | "plain" | "paginated"
    paginator,       \* the document's cursor: [has_next, end_cursor]
    proc,            \* per caller: position and locals of its execute cycle
    now,             \* wall clock, seconds
    executes,        \* number of execute calls made on the document
    served,          \* hasNextPage of every page whose cursor update was applied
    yields,          \* number of payloads yielded by the page sequence
    pure,            \* a direct use of a pure function: its inputs and its result
    hist,            \* history of the latest execute call: the retry-wrapped
                     \* calls that sent a request, in order, and the number of
                     \* pages it yielded
    miner            \* the mining run of driver.py: its users, its position in
                     \* the list and the state of its UserMetricsMiner

vars == <<client, authenticator, retry_attempts, doc, paginator, proc, now,
          executes, served, yields, pure, hist, miner>>


(***************************************************************************)
(* Exceptions and results.                                                 *)
(***************************************************************************)
Exc(name) == [type |-> name]
Return(v) == [kind |-> "return", value |-> v]
Yield(v) == [kind |-> "yield", value |-> v]
Raise(e) == [kind |-> "raise", exc |-> e]
StopIteration == [kind |-> "stop"]
NoResult == [kind |-> "none"]

\* the message leaves out the response body
QueryFailedExceptionNoText(response, query) ==
    IF response = NoResponse
    THEN Exc("AttributeError")
    ELSE [type |-> "QueryFailedException",
          response |-> response,
          query |-> query,
          message |-> [code |-> response.status, query |-> query,
                       text |-> [none |-> TRUE]]]

\* QueryFailedException.__init__ (client.py:25-40).  `query` is a text; the
\* empty text is falsy.  With response = None the attribute access
\* response.status_code raises AttributeError instead.
QueryFailedException(response, query) ==
    IF response = NoResponse
    THEN Exc("AttributeError")
    ELSE [type |-> "QueryFailedException",
          response |-> response,
          query |-> query,
          message |->
              IF query # <<>>
              THEN [code |-> response.status, query |-> query,
                    text |-> response.body]
              ELSE [code |-> response.status, path |-> "/graphql",
                    text |-> response.body]]

(***************************************************************************)
(* Query documents.                                                        *)
(***************************************************************************)
\* Query.get_query(): the text of the document, as tokens; a paginated
\* document renders its cursor's current end_cursor.
get_query(kind, pg) ==
    IF kind = "plain"
    THEN <<"query", "{", "user", "login", "}">>
    ELSE <<"query", "{", "user", "items", "after", pg.end_cursor, "}">>

\* QueryNodePaginator state after construction.
NewPaginator == [has_next |-> TRUE, end_cursor |-> None]

\* QueryNodePaginator.update_paginator(has_next_page, end_cursor)
update_paginator(pg, has_next_page, end_cursor) ==
    [has_next |-> has_next_page, end_cursor |-> end_cursor]

\* re.search(r"query\s*{(?P<content>.+)}", query) (client.py:147): the tokens
\* between the first "query {" and the last "}", at least one; <<>> stands for
\* no match.
RegexContent(text) ==
    LET starts == {i \in 1..Len(text) :
                      /\ text[i] = "query"
                      /\ i + 1 <= Len(text)
                      /\ text[i + 1] = "{"
                      /\ \E j \in (i + 3)..Len(text) : text[j] = "}"}
    IN  IF starts = {}
        THEN <<>>
        ELSE LET i == CHOOSE x \in starts : \A y \in starts : x <= y
                 j == CHOOSE x \in (i + 3)..Len(text) :
                          /\ text[x] = "}"
                          /\ \A y \in (i + 3)..Len(text) : text[y] = "}" => y <= x
             IN  SubSeq(text, i + 2, j - 1)

\* constants of app/github_query/queries/constants.py
NODE_RATE_LIMIT == "rateLimit"
FIELD_COST == "cost"
FIELD_REMAINING == "remaining"
FIELD_RESET_AT == "resetAt"
ARG_DRYRUN == "dryrun"

\* QueryNode(name, args, fields)
QueryNode(name, args, fields) == [name |-> name, args |-> args, fields |-> fields]

\* the dryrun argument is ignored: the probe is always a dry run
QueryCostDryrunTrue(query, dryrun) ==
    IF query = <<>>
    THEN [error |-> "ValueError"]
    ELSE [error |-> None,
          query |-> query,
          node |-> QueryNode(NODE_RATE_LIMIT,
                             [dryrun |-> TRUE],
                             <<FIELD_COST, FIELD_REMAINING, FIELD_RESET_AT>>)]

\* QueryCost.__init__ (query_cost.py:20-44): the probe document, or ValueError
\* for an empty body.
QueryCost(query, dryrun) ==
    IF query = <<>>
    THEN [error |-> "ValueError"]
    ELSE [error |-> None,
          query |-> query,
          node |-> QueryNode(NODE_RATE_LIMIT,
                             [dryrun |-> dryrun],
                             <<FIELD_COST, FIELD_REMAINING, FIELD_RESET_AT>>)]

(***************************************************************************)
(* Client._retry_request (client.py:110-142).                              *)
(***************************************************************************)
\* locals at loop entry (client.py:124-125)
RetryLocals == [attempts |-> 0, last_exception |-> FALSE, response |-> NoResponse]

\* every exception of an attempt is caught and retried like a timeout
RetryIterationCatchesAll(st, o) ==
    IF o.t = "resp"
    THEN [attempts |-> st.attempts + 1,
          last_exception |-> st.last_exception,
          response |-> o.resp,
          out |-> IF o.resp.status = 200 THEN "return" ELSE "loop"]
    ELSE [attempts |-> st.attempts + 1,
          last_exception |-> TRUE,
          response |-> st.response,
          out |-> "loop"]

\* one iteration of the loop (client.py:126-138) with outcome o of requests.post
RetryIteration(st, o) ==
    IF o.t = "resp"
    THEN [attempts |-> st.attempts + 1,
          last_exception |-> st.last_exception,
          response |-> o.resp,
          out |-> IF o.resp.status = 200 THEN "return" ELSE "loop"]
    ELSE IF o.t = "timeout"
    THEN [attempts |-> st.attempts + 1,
          last_exception |-> TRUE,
          response |-> st.response,
          out |-> "loop"]
    ELSE [attempts |-> st.attempts + 1,
          last_exception |-> st.last_exception,
          response |-> st.response,
          out |-> "propagate"]

\* the test on last_exception is inverted
RetryExhaustedInverted(st, query) ==
    IF st.last_exception
    THEN QueryFailedException(st.response, query)
    ELSE Exc("Timeout")

\* after the loop (client.py:139-142)
RetryExhausted(st, query) ==
    IF ~st.last_exception
    THEN QueryFailedException(st.response, query)
    ELSE Exc("Timeout")

\* the loop runs twice the budget
LoopContinuesTwice(attempts, retries) == attempts < 2 * retries

\* the loop runs one iteration too many
LoopContinuesOffByOne(attempts, retries) == attempts <= retries

\* range(self._retry_attempts) has another iteration (client.py:126)
LoopContinues(attempts, retries) == attempts < retries

(***************************************************************************)
(* Client._have_limit (client.py:144-157).                                 *)
(***************************************************************************)
\* the throttle never engages
ThrottleEngagedNever(retries, cost, remaining) == FALSE

\* the comparison is not strict
ThrottleEngagedNonStrict(retries, cost, remaining) == retries * cost >= remaining

\* client.py:157
ThrottleEngaged(retries, cost, remaining) == retries * cost > remaining

\* client.py:151-157 on the probe's 200 response
have_limit(resp, retries) ==
    IF "undecodable" \in DOMAIN resp.body
    THEN [error |-> "JSONDecodeError"]
    ELSE IF "data" \notin DOMAIN resp.body
    THEN [error |-> "KeyError"]
    ELSE IF NODE_RATE_LIMIT \notin DOMAIN resp.body.data
    THEN [error |-> "KeyError"]
    ELSE LET rate_limit == resp.body.data.rateLimit
         IN  [error |-> None,
              rate_limit |-> rate_limit,
              no_limit |-> ThrottleEngaged(retries, rate_limit.cost,
                                           rate_limit.remaining),
              reset_at |-> rate_limit.resetAt]

(***************************************************************************)
(* Client._execute (client.py:159-197).                                    *)
(***************************************************************************)
\* datetime.strptime(reset_at, "%Y-%m-%dT%H:%M:%SZ") as seconds, -1 for
\* ValueError (client.py:177)
strptime(t) == IF t[1] \in 0..59 /\ t[2] \in 0..59 THEN t[1] * 60 + t[2] ELSE -1

\* the fixed margin added to the wait (client.py:186)
SleepMargin == 5

\* the whole decoded body is returned instead of its data
execute_resultWholeBody(response, query) ==
    IF "undecodable" \in DOMAIN response.body
    THEN Raise(QueryFailedException(response, query))
    ELSE IF response.status = 200 /\ "errors" \notin DOMAIN response.body
    THEN Return(response.body)
    ELSE Raise(QueryFailedException(response, query))

\* client.py:190-197 on the response the retry-wrapped call returned.  An
\* undecodable body makes response.json() raise requests' JSONDecodeError, a
\* RequestException (requests >= 2.27), which client.py:192 catches; a body
\* without data and without errors makes json_response["data"] a KeyError.
execute_result(response, query) ==
    IF "undecodable" \in DOMAIN response.body
    THEN Raise(QueryFailedException(response, query))
    ELSE IF response.status = 200 /\ "errors" \notin DOMAIN response.body
    THEN IF "data" \in DOMAIN response.body
         THEN Return(response.body.data)
         ELSE Raise(Exc("KeyError"))
    ELSE Raise(QueryFailedException(response, query))

(***************************************************************************)
(* Client._execution_generator (client.py:199-221).                        *)
(***************************************************************************)
\* client.py:213-216: follow the path; [ok |-> FALSE] for a KeyError
RECURSIVE Walk(_, _)
Walk(node, path) ==
    IF path = <<>>
    THEN [ok |-> TRUE, node |-> node]
    ELSE IF Head(path) \in DOMAIN node
    THEN Walk(node[Head(path)], Tail(path))
    ELSE [ok |-> FALSE]

\* the new end_cursor is dropped: only has_next is applied
page_updateKeepsCursor(pg, response, path) ==
    LET w == Walk(response, path)
    IN  IF ~w.ok \/ "pageInfo" \notin DOMAIN w.node
        THEN [error |-> "KeyError"]
        ELSE IF   \/ "endCursor" \notin DOMAIN w.node.pageInfo
                  \/ "hasNextPage" \notin DOMAIN w.node.pageInfo
        THEN [error |-> "KeyError"]
        ELSE [error |-> None,
              paginator |-> update_paginator(pg, w.node.pageInfo.hasNextPage,
                                             pg.end_cursor),
              has_next_page |-> w.node.pageInfo.hasNextPage]

\* a page whose path or pageInfo does not resolve is taken for an empty last
\* page
page_updateSilentEmpty(pg, response, path) ==
    LET w == Walk(response, path)
    IN  IF ~w.ok \/ "pageInfo" \notin DOMAIN w.node
        THEN [error |-> None,
              paginator |-> update_paginator(pg, FALSE, pg.end_cursor),
              has_next_page |-> FALSE]
        ELSE IF   \/ "endCursor" \notin DOMAIN w.node.pageInfo
                  \/ "hasNextPage" \notin DOMAIN w.node.pageInfo
        THEN [error |-> None,
              paginator |-> update_paginator(pg, FALSE, pg.end_cursor),
              has_next_page |-> FALSE]
        ELSE [error |-> None,
              paginator |-> update_paginator(pg, w.node.pageInfo.hasNextPage,
                                             w.node.pageInfo.endCursor),
              has_next_page |-> w.node.pageInfo.hasNextPage]

\* client.py:213-220: the cursor after the page `response`, or KeyError
page_update(pg, response, path) ==
    LET w == Walk(response, path)
    IN  IF ~w.ok \/ "pageInfo" \notin DOMAIN w.node
        THEN [error |-> "KeyError"]
        ELSE IF   \/ "endCursor" \notin DOMAIN w.node.pageInfo
                  \/ "hasNextPage" \notin DOMAIN w.node.pageInfo
        THEN [error |-> "KeyError"]
        ELSE [error |-> None,
              paginator |-> update_paginator(pg, w.node.pageInfo.hasNextPage,
                                             w.node.pageInfo.endCursor),
              has_next_page |-> w.node.pageInfo.hasNextPage]

\* client.py:221: what the consumer receives for the page
page_yield(response) == Yield(response)

\* the loop test ignores the cursor
generator_continuesAlways(pg) == TRUE

\* client.py:211
generator_continues(pg) == pg.has_next

(***************************************************************************)
(* The callers.                                                            *)
(***************************************************************************)
NoSnapshot == [cost |-> -1, remaining |-> -1, resetAt |-> <<0, 0>>]

IdleProc ==
    [pc |-> "idle",
     attempts |-> 0, last_exception |-> FALSE, response |-> NoResponse,
     query |-> <<>>, rendered |-> <<>>, sent |-> <<>>,
     no_limit |-> FALSE, reset_at |-> <<0, 0>>, rate_limit |-> NoSnapshot,
     nProbe |-> 0, nQuery |-> 0, timeouts |-> 0, answered |-> 0, last |-> "none",
     result |-> NoResult]

Procs == DOMAIN proc

\* the text a QueryCost document renders to (Query.get_query)
probe_text(cost_doc) ==
    <<"query", "{">> \o cost_doc.query
        \o <<cost_doc.node.name, "(", ARG_DRYRUN, ":",
             IF cost_doc.node.args.dryrun THEN "true" ELSE "false", ")", "{">>
        \o cost_doc.node.fields \o <<"}", "}">>

\* the probe text _have_limit sends for the document text `text`
\* (client.py:147-149)
rate_query(text) == probe_text(QueryCost(RegexContent(text), TRUE))

\* _execute has returned `result`, decoded from `response`: the other locals
\* of the cycle are gone
returned(p, pc, result) ==
    [p EXCEPT !.pc = pc, !.result = result, !.sent = <<>>,
              !.timeouts = 0, !.answered = 0, !.last = "none",
              !.attempts = RetryLocals.attempts,
              !.last_exception = RetryLocals.last_exception,
              !.no_limit = FALSE, !.reset_at = <<0, 0>>,
              !.rate_limit = NoSnapshot]

\* the cycle ends by raising e (a generator that raises is finished)
Failed(p, e) == [p EXCEPT !.pc = "done", !.result = Raise(e)]

\* entry of a retry-wrapped call for `text` (client.py:122-126); with no
\* iteration to run the call falls through to client.py:139-142
enter_retry(p, text, phase) ==
    IF LoopContinues(0, retry_attempts)
    THEN [p EXCEPT !.pc = phase, !.query = text, !.sent = <<>>,
                   !.timeouts = 0, !.answered = 0, !.last = "none",
                   !.attempts = RetryLocals.attempts,
                   !.last_exception = RetryLocals.last_exception,
                   !.response = RetryLocals.response]
    ELSE Failed([p EXCEPT !.query = text, !.sent = <<>>,
                          !.timeouts = 0, !.answered = 0, !.last = "none",
                          !.attempts = RetryLocals.attempts,
                          !.last_exception = RetryLocals.last_exception,
                          !.response = RetryLocals.response],
                RetryExhausted(RetryLocals,
                               IF phase = "probe" THEN rate_query(text) ELSE text))

\* every page is rendered with the cursor of a new document
start_cycleStaleRender(p, kind, pg) ==
    LET text == get_query(kind, NewPaginator)
        fresh == [returned(p, p.pc, NoResult) EXCEPT
                      !.nProbe = 0, !.nQuery = 0, !.query = text,
                      !.rendered = text,
                      !.response = RetryLocals.response]
    IN  IF RegexContent(text) = <<>>
        THEN Failed(fresh, Exc("AttributeError"))
        ELSE IF QueryCost(RegexContent(text), TRUE).error # None
        THEN Failed(fresh, Exc("ValueError"))
        ELSE enter_retry(fresh, text, "probe")

\* the cost probe is taken for the first page only
start_cycleProbeOnce(p, kind, pg) ==
    LET text == get_query(kind, pg)
        fresh == [returned(p, p.pc, NoResult) EXCEPT
                      !.nProbe = 0, !.nQuery = 0, !.query = text,
                      !.rendered = text,
                      !.response = RetryLocals.response]
    IN  IF RegexContent(text) = <<>>
        THEN Failed(fresh, Exc("AttributeError"))
        ELSE IF QueryCost(RegexContent(text), TRUE).error # None
        THEN Failed(fresh, Exc("ValueError"))
        ELSE IF kind = "paginated" /\ pg.end_cursor # None
        THEN enter_retry(fresh, text, "query")
        ELSE enter_retry(fresh, text, "probe")

\* _execute up to the probe's first attempt (client.py:172, 145-150)
start_cycle(p, kind, pg) ==
    LET text == get_query(kind, pg)
        fresh == [returned(p, p.pc, NoResult) EXCEPT
                      !.nProbe = 0, !.nQuery = 0, !.query = text,
                      !.rendered = text,
                      !.response = RetryLocals.response]
    IN  IF RegexContent(text) = <<>>
        THEN Failed(fresh, Exc("AttributeError"))
        ELSE IF QueryCost(RegexContent(text), TRUE).error # None
        THEN Failed(fresh, Exc("ValueError"))
        ELSE enter_retry(fresh, text, "probe")

\* the retry locals after one more attempt
after_attempt(p, o) ==
    LET st == RetryIteration([attempts |-> p.attempts,
                              last_exception |-> p.last_exception,
                              response |-> p.response], o)
    IN  [p EXCEPT !.attempts = st.attempts,
                  !.last_exception = st.last_exception,
                  !.response = st.response,
                  !.timeouts = IF o.t = "timeout" THEN @ + 1 ELSE @,
                  !.answered = IF o.t = "resp" THEN @ + 1 ELSE @,
                  !.last = o.t]

attempt_out(p, o) ==
    RetryIteration([attempts |-> p.attempts,
                    last_exception |-> p.last_exception,
                    response |-> p.response], o).out

\* the loop goes on, or the call fails (client.py:126, 139-142)
loop_or_fail(p, query) ==
    IF LoopContinues(p.attempts, retry_attempts)
    THEN p
    ELSE Failed(p, RetryExhausted([attempts |-> p.attempts,
                                   last_exception |-> p.last_exception,
                                   response |-> p.response], query))

\* the real query is entered whatever _have_limit made of the probe's answer
after_probeQueriesAnyway(p, kind, pg) ==
    enter_retry(p, get_query(kind, pg), "query")

\* _have_limit returned for the probe's 200 answer; _execute goes on to the
\* throttle decision (client.py:151-157, 172-175, 189)
after_probe(p, kind, pg) ==
    LET h == have_limit(p.response, retry_attempts)
    IN  IF h.error # None
        THEN Failed(p, Exc(h.error))
        ELSE LET q == [p EXCEPT !.no_limit = h.no_limit,
                                !.reset_at = h.reset_at,
                                !.rate_limit = h.rate_limit]
             IN  IF h.no_limit
                 THEN [q EXCEPT !.pc = "sleep"]
                 ELSE enter_retry(q, get_query(kind, pg), "query")

\* the first page cycle is started by the call itself
new_generatorEager(p, kind, pg) == start_cycle(p, kind, pg)

\* Client.execute on a paginated document (client.py:232-233): the generator
\* object is returned; none of its body has run
new_generator(p, kind, pg) ==
    [returned(p, "gen", NoResult) EXCEPT
         !.nProbe = 0, !.nQuery = 0, !.query = <<>>, !.rendered = <<>>,
         !.response = RetryLocals.response]

\* the history after a step that took a caller from `old` to `new`; `call` is
\* the retry-wrapped call the step made an attempt of ("none": no attempt)
NoHistory == [calls |-> <<>>, pages |-> 0]

record(h, old, new, call) ==
    [calls |-> IF   \/ call = "probe" /\ old.nProbe = 0
                    \/ call = "query" /\ old.nQuery = 0
               THEN Append(h.calls, call)
               ELSE h.calls,
     pages |-> IF new.pc = "yielded" /\ old.pc = "query"
               THEN h.pages + 1
               ELSE h.pages]

\* no pure function is in use
NoPure == [fn |-> "none"]

\* no mining run is in progress
NoMiner == [run |-> "none"]

ClientInit ==
    /\ client = "none"
    /\ authenticator = None
    /\ retry_attempts = 0
    /\ doc = "none"
    /\ paginator = NewPaginator
    /\ proc = [c \in {1} |-> IdleProc]
    /\ now = Now0
    /\ executes = 0
    /\ served = <<>>
    /\ yields = 0
    /\ hist = NoHistory

Init == ClientInit /\ pure = NoPure /\ miner = NoMiner

\* the authenticator is not checked
client_initNoCheck(auth) == "ok"

\* Client.__init__ (client.py:50-81)
client_init(auth) ==
    IF auth = None THEN "InvalidAuthenticationError" ELSE "ok"

Construct(auth, retries) ==
    /\ client = "none"
    /\ client' = client_init(auth)
    /\ authenticator' = auth
    /\ retry_attempts' = retries
    /\ UNCHANGED <<doc, paginator, proc, now, executes, served, yields, pure, hist, miner>>

\* the caller builds its document (Query / PaginatedQuery construction)
CreateQuery(kind) ==
    /\ doc = "none"
    /\ doc' = kind
    /\ paginator' = NewPaginator
    /\ UNCHANGED <<client, authenticator, retry_attempts, proc, now, executes,
                   served, yields, pure, hist, miner>>

\* Client.execute (client.py:223-234)
Execute(c) ==
    /\ client = "ok"
    /\ doc # "none"
    /\ proc[c].pc \in {"idle", "done"}
    /\ executes < MaxExecutes
    /\ executes' = executes + 1
    /\ proc' = [proc EXCEPT ![c] =
                   IF doc = "paginated"
                   THEN new_generator(@, doc, paginator)
                   ELSE start_cycle(@, doc, paginator)]
    /\ hist' = NoHistory
    /\ UNCHANGED <<client, authenticator, retry_attempts, doc, paginator, now,
                   served, yields, pure, miner>>

\* the consumer asks the page sequence for its next element: the generator
\* runs to the loop test (client.py:211) and into _execute (client.py:212)
NextPage(c) ==
    /\ proc[c].pc \in {"gen", "yielded"}
    /\ generator_continues(paginator) => Len(served) < MaxPages
    /\ proc' = [proc EXCEPT ![c] =
                   IF generator_continues(paginator)
                   THEN start_cycle(@, doc, paginator)
                   ELSE [returned(@, "done", StopIteration) EXCEPT
                             !.nProbe = 0, !.nQuery = 0,
                             !.response = RetryLocals.response]]
    /\ hist' = record(hist, proc[c], proc'[c], "none")
    /\ UNCHANGED <<client, authenticator, retry_attempts, doc, paginator, now,
                   executes, served, yields, pure, miner>>

\* one HTTP attempt of the cost probe (client.py:150, 126-142), and on its
\* 200 answer the rest of _have_limit and the throttle decision
ProbeAttempt(c, o) ==
    /\ proc[c].pc = "probe"
    /\ LET p == [after_attempt(proc[c], o) EXCEPT
                     !.nProbe = @ + 1, !.sent = rate_query(proc[c].query)]
           out == attempt_out(proc[c], o)
       IN  proc' = [proc EXCEPT ![c] =
                       IF out = "propagate"
                       THEN Failed(p, Exc("ConnectionError"))
                       ELSE IF out = "return"
                       THEN after_probe(p, doc, paginator)
                       ELSE loop_or_fail(p, rate_query(p.query))]
    /\ hist' = record(hist, proc[c], proc'[c], "probe")
    /\ UNCHANGED <<client, authenticator, retry_attempts, doc, paginator, now,
                   executes, served, yields, pure, miner>>

\* the throttle wait (client.py:176-186), then entry of the real query's call
Sleep(c) ==
    /\ proc[c].pc = "sleep"
    /\ LET reset == strptime(proc[c].reset_at)
           seconds == reset - now
       IN  IF reset < 0 \/ seconds + SleepMargin < 0
           THEN /\ proc' = [proc EXCEPT ![c] = Failed(@, Exc("ValueError"))]
                /\ now' = now
           ELSE /\ now' = now + seconds + SleepMargin
                /\ proc' = [proc EXCEPT ![c] =
                               enter_retry([@ EXCEPT !.rate_limit = NoSnapshot,
                                                     !.reset_at = <<0, 0>>],
                                           get_query(doc, paginator), "query")]
    /\ hist' = record(hist, proc[c], proc'[c], "none")
    /\ UNCHANGED <<client, authenticator, retry_attempts, doc, paginator,
                   executes, served, yields, pure, miner>>

\* one HTTP attempt of the real query (client.py:189, 126-142); on its 200
\* answer the rest of _execute (client.py:190-197) and, for a page, the
\* cursor update and the yield (client.py:213-221)
QueryAttempt(c, o) ==
    /\ proc[c].pc = "query"
    /\ LET p == [after_attempt(proc[c], o) EXCEPT !.nQuery = @ + 1,
                                                  !.sent = proc[c].query,
                                                  !.rate_limit = NoSnapshot,
                                                  !.reset_at = <<0, 0>>]
           out == attempt_out(proc[c], o)
           r == execute_result(p.response, p.query)
           u == page_update(paginator, r.value, DocPath)
       IN  IF out = "return" /\ r.kind = "return" /\ doc = "paginated"
           THEN IF u.error # None
                THEN /\ proc' = [proc EXCEPT ![c] = Failed(p, Exc(u.error))]
                     /\ UNCHANGED <<paginator, served, yields>>
                ELSE /\ paginator' = u.paginator
                     /\ served' = Append(served, u.has_next_page)
                     /\ yields' = yields + 1
                     /\ proc' = [proc EXCEPT ![c] =
                                    returned(p, "yielded", page_yield(r.value))]
           ELSE /\ proc' = [proc EXCEPT ![c] =
                               IF out = "propagate"
                               THEN Failed(p, Exc("ConnectionError"))
                               ELSE IF out = "return"
                               THEN IF r.kind = "raise"
                                    THEN Failed(p, r.exc)
                                    ELSE returned(p, "done", r)
                               ELSE loop_or_fail(p, p.query)]
                /\ UNCHANGED <<paginator, served, yields>>
    /\ hist' = record(hist, proc[c], proc'[c], "query")
    /\ UNCHANGED <<client, authenticator, retry_attempts, doc, now, executes, pure, miner>>

Outcomes(rs) == {Timeout, NetError} \cup {Answer(r) : r \in rs}

Next ==
    \/ \E auth \in {"token", None}, r \in RetryChoices : Construct(auth, r)
    \/ \E kind \in {"plain", "paginated"} : CreateQuery(kind)
    \/ \E c \in Procs : Execute(c)
    \/ \E c \in Procs : NextPage(c)
    \/ \E c \in Procs, o \in Outcomes(ProbeResponses) : ProbeAttempt(c, o)
    \/ \E c \in Procs : Sleep(c)
    \/ \E c \in Procs, o \in Outcomes(QueryResponses(doc)) : QueryAttempt(c, o)

Spec == Init /\ [][Next]_vars

(***************************************************************************)
(* QueryCost used on its own: any body of up to MaxBodyLen tokens, either  *)
(* flag.                                                                   *)
(***************************************************************************)
CostTokens == {"user", "login", "{", "}"}

CostBodies == UNION {[1..n -> CostTokens] : n \in 0..MaxBodyLen}

Pending == [error |-> "pending"]

InitCost ==
    /\ ClientInit
    /\ miner = NoMiner
    /\ pure \in {[fn |-> "QueryCost", query |-> q, dryrun |-> d, out |-> Pending] :
                    q \in CostBodies, d \in BOOLEAN}

\* QueryCost(query, dryrun)
BuildQueryCost ==
    /\ pure.fn = "QueryCost"
    /\ pure.out = Pending
    /\ pure' = [pure EXCEPT !.out = QueryCost(pure.query, pure.dryrun)]
    /\ UNCHANGED <<client, authenticator, retry_attempts, doc, paginator, proc,
                   now, executes, served, yields, hist, miner>>

NextCost == BuildQueryCost

SpecCost == InitCost /\ [][NextCost]_vars

(***************************************************************************)
(* Properties of the retry-wrapped call.                                   *)
(***************************************************************************)
InLoop(c) == proc[c].pc \in {"probe", "query"}

FailedWith(c, type) ==
    /\ proc[c].pc = "done"
    /\ proc[c].result.kind = "raise"
    /\ proc[c].result.exc.type = type

\* C1: a retry-wrapped call (the probe's or the real query's) makes at most
\* retry_attempts HTTP attempts, and an attempt is made only while no attempt
\* of the call has been answered with status 200: the call returns on the
\* first 200.
RetryBoundedAndStopsOn200 ==
    \A c \in Procs :
        /\ proc[c].nProbe <= retry_attempts
        /\ proc[c].nQuery <= retry_attempts
        /\ proc[c].attempts <= retry_attempts
        /\ InLoop(c) =>
              /\ proc[c].attempts < retry_attempts
              /\ proc[c].response.status # 200
              /\ proc[c].attempts =
                    IF proc[c].pc = "probe" THEN proc[c].nProbe ELSE proc[c].nQuery

\* the probe's call returned on its second attempt with a third one left
RetryReturnedEarly ==
    \E c \in Procs :
        /\ proc[c].pc = "query"
        /\ proc[c].nProbe = 2
        /\ proc[c].nQuery = 0
        /\ retry_attempts = 3

\* C2: when all retry_attempts attempts (at least one) of a retry-wrapped call
\* timed out, the call has failed with Timeout, not with
\* QueryFailedException.
AllTimeoutsRaiseTimeout ==
    \A c \in Procs :
        (retry_attempts >= 1 /\ proc[c].timeouts = retry_attempts) =>
            /\ FailedWith(c, "Timeout")
            /\ ~FailedWith(c, "QueryFailedException")

\* three attempts of the real query timed out
AllTimeoutsReached ==
    \E c \in Procs :
        /\ retry_attempts = 3
        /\ proc[c].timeouts = 3
        /\ proc[c].nQuery = 3
        /\ FailedWith(c, "Timeout")

(***************************************************************************)
(* Properties of the throttle.                                             *)
(***************************************************************************)
Probed(c) == proc[c].rate_limit # NoSnapshot

\* the throttle is engaged: _execute takes the wait branch (client.py:175)
\* instead of going straight to the real query
Engaged(c) == proc[c].no_limit /\ proc[c].pc # "query"

\* C3: after a probe the throttle is engaged (the client takes the wait
\* branch instead of sending the real query at once) exactly when
\* retry_attempts * cost > remaining; with retry_attempts = 3 and cost = 40
\* it is engaged for remaining = 100 and not for 120 or 130.
ThrottleExactlyWhenOverBudget ==
    \A c \in Procs :
        Probed(c) =>
            LET cost == proc[c].rate_limit.cost
                remaining == proc[c].rate_limit.remaining
            IN  /\ Engaged(c) <=> retry_attempts * cost > remaining
                /\ ~Engaged(c) <=> proc[c].pc = "query"
                /\ (retry_attempts = 3 /\ cost = 40 /\ remaining = 100)
                      => Engaged(c)
                /\ (retry_attempts = 3 /\ cost = 40 /\ remaining \in {120, 130})
                      => ~Engaged(c)

\* the boundary: 3 * 40 = 120 is not over a remaining budget of 120
ThrottleBoundaryReached ==
    \E c \in Procs :
        /\ retry_attempts = 3
        /\ proc[c].rate_limit.cost = 40
        /\ proc[c].rate_limit.remaining = 120
        /\ proc[c].pc = "query"

(***************************************************************************)
(* Properties of the page sequence.                                        *)
(***************************************************************************)
Drained(c) == proc[c].pc = "done" /\ proc[c].result = StopIteration

\* C4: when the page sequence of a paginated document ends, the pages served
\* reported hasNextPage = TRUE on pages 1..n-1 and FALSE on page n, exactly
\* n payloads were yielded, and while has_next is FALSE no caller is in a
\* cost probe, a throttle wait or a query: no HTTP request is sent.
DrainYieldsEveryPageThenStops ==
    /\ \A c \in Procs :
          (doc = "paginated" /\ Drained(c)) =>
              /\ Len(served) >= 1
              /\ yields = Len(served)
              /\ served[Len(served)] = FALSE
              /\ \A i \in 1..(Len(served) - 1) : served[i] = TRUE
    /\ (doc = "paginated" /\ ~paginator.has_next) =>
          \A c \in Procs : proc[c].pc \notin {"probe", "sleep", "query"}

\* a sequence of two pages was drained
TwoPagesDrained ==
    \E c \in Procs :
        /\ doc = "paginated"
        /\ Drained(c)
        /\ served = <<TRUE, FALSE>>
        /\ yields = 2

\* C5: when the consumer holds page k, the cursor equals the endCursor and
\* hasNextPage found under pageInfo at the document's path in that page.
CursorUpdatedBeforeYield ==
    \A c \in Procs :
        proc[c].pc = "yielded" =>
            /\ proc[c].result.kind = "yield"
            /\ LET w == Walk(proc[c].result.value, DocPath)
               IN  /\ w.ok
                   /\ paginator.has_next = w.node.pageInfo.hasNextPage
                   /\ paginator.end_cursor = w.node.pageInfo.endCursor

\* the consumer holds a second page, which reported the cursor "C2"
SecondPageYielded ==
    \E c \in Procs :
        /\ proc[c].pc = "yielded"
        /\ yields = 2
        /\ proc[c].result.value = PageData("C2", FALSE)
        /\ paginator = [has_next |-> FALSE, end_cursor |-> "C2"]

(***************************************************************************)
(* Properties of execute's result.                                         *)
(***************************************************************************)
\* the real query's call was answered, and `response` is that answer
QueryAnswered(c) == proc[c].nQuery >= 1 /\ proc[c].response # NoResponse

\* C6: for a non-paginated document, once the probe succeeded and the real
\* query is answered with status 200 and a JSON body that has a data key and
\* no errors key, execute has returned exactly the value of that data key.
PlainExecuteReturnsData ==
    \A c \in Procs :
        (/\ doc = "plain"
         /\ QueryAnswered(c)
         /\ proc[c].response.status = 200
         /\ "undecodable" \notin DOMAIN proc[c].response.body
         /\ "errors" \notin DOMAIN proc[c].response.body
         /\ "data" \in DOMAIN proc[c].response.body)
        => /\ proc[c].pc = "done"
           /\ proc[c].result = Return(proc[c].response.body.data)

\* execute returned the login payload of the 200 answer
PlainDataReturned ==
    \E c \in Procs :
        /\ doc = "plain"
        /\ proc[c].pc = "done"
        /\ proc[c].nProbe >= 1
        /\ proc[c].response = Response(200, [data |-> [user |-> [login |-> "octocat"]]])
        /\ proc[c].result = Return([user |-> [login |-> "octocat"]])

\* every request of the cycle was answered, each with a status other than
\* 200: the probe's call used up its attempts
AllAnswersNon200(c) ==
    /\ retry_attempts >= 1
    /\ proc[c].nQuery = 0
    /\ proc[c].nProbe = retry_attempts
    /\ proc[c].attempts = retry_attempts
    /\ proc[c].answered = retry_attempts
    /\ proc[c].response.status # 200

\* C7: when every request was answered with a status other than 200, execute
\* has failed with a QueryFailedException whose message holds the status code
\* and the body text of the last response.
Non200RaisesQueryFailed ==
    \A c \in Procs :
        AllAnswersNon200(c) =>
            /\ FailedWith(c, "QueryFailedException")
            /\ proc[c].result.exc.message.code = proc[c].response.status
            /\ proc[c].result.exc.message.text = proc[c].response.body

\* three answers 404 Not Found
NotFoundRaised ==
    \E c \in Procs :
        /\ retry_attempts = 3
        /\ AllAnswersNon200(c)
        /\ FailedWith(c, "QueryFailedException")
        /\ proc[c].result.exc.message.code = 404
        /\ proc[c].result.exc.message.text = NotFoundBody

\* the real query's call is over and its last attempt was answered with a
\* response that is undecodable, or not 200, or carries an errors key
BadQueryAnswer(c) ==
    /\ proc[c].pc = "done"
    /\ QueryAnswered(c)
    /\ proc[c].last = "resp"
    /\ \/ "undecodable" \in DOMAIN proc[c].response.body
       \/ proc[c].response.status # 200
       \/ "errors" \in DOMAIN proc[c].response.body

\* C8: a real query whose response is undecodable, or not 200, or 200 with an
\* errors key makes execute fail with a QueryFailedException carrying the
\* query text, and no data is returned for it.
BadAnswerRaisesQueryFailed ==
    \A c \in Procs :
        BadQueryAnswer(c) =>
            /\ FailedWith(c, "QueryFailedException")
            /\ proc[c].result.exc.query = proc[c].query

\* the same, for calls none of whose attempts timed out
BadAnswerRaisesQueryFailedUnlessTimeout ==
    \A c \in Procs :
        (BadQueryAnswer(c) /\ proc[c].timeouts = 0) =>
            /\ FailedWith(c, "QueryFailedException")
            /\ proc[c].result.exc.query = proc[c].query

(***************************************************************************)
(* Properties of construction.                                             *)
(***************************************************************************)
\* C9: a Client constructed without an authenticator is the error
\* InvalidAuthenticationError: there is no client, no execute is started and
\* no HTTP attempt is made.
NoAuthenticatorNoClient ==
    (client # "none" /\ authenticator = None) =>
        /\ client = "InvalidAuthenticationError"
        /\ executes = 0
        /\ \A c \in Procs :
              /\ proc[c].pc = "idle"
              /\ proc[c].nProbe = 0
              /\ proc[c].nQuery = 0

\* construction failed while the caller holds a document to execute
ConstructionFailed ==
    /\ client = "InvalidAuthenticationError"
    /\ authenticator = None
    /\ doc = "paginated"

(***************************************************************************)
(* Properties of the cost probe's construction.                            *)
(***************************************************************************)
QueryCostBuilt == pure.fn = "QueryCost" /\ pure.out # Pending

\* C10: QueryCost fails (ValueError) exactly for the empty body; for every
\* other body the probe holds that body and a rateLimit node whose dryrun
\* argument is the given flag and whose fields are cost, remaining, resetAt.
QueryCostEmbedsDryrun ==
    QueryCostBuilt =>
        /\ pure.query = <<>> <=> pure.out.error = "ValueError"
        /\ pure.query # <<>> =>
              /\ pure.out.error = None
              /\ pure.out.query = pure.query
              /\ pure.out.node.name = "rateLimit"
              /\ DOMAIN pure.out.node.args = {"dryrun"}
              /\ pure.out.node.args.dryrun = pure.dryrun
              /\ pure.out.node.fields = <<"cost", "remaining", "resetAt">>

\* a probe built with dryrun = FALSE around a body of three tokens
QueryCostBuiltNotDryrun ==
    /\ QueryCostBuilt
    /\ Len(pure.query) = 3
    /\ pure.dryrun = FALSE
    /\ pure.out.error = None
    /\ pure.out.node.args.dryrun = FALSE


(***************************************************************************)
(* Properties of a page sequence that fails.                               *)
(***************************************************************************)
\* the path user.items, its pageInfo and both fields of it are found in the
\* page payload d
Resolves(d) ==
    /\ "user" \in DOMAIN d
    /\ "items" \in DOMAIN d.user
    /\ "pageInfo" \in DOMAIN d.user.items
    /\ "endCursor" \in DOMAIN d.user.items.pageInfo
    /\ "hasNextPage" \in DOMAIN d.user.items.pageInfo

\* the real query of caller c's page cycle was answered 200 with data and no
\* errors, and the path or the pageInfo is not found in that data
UnresolvedPage(c) ==
    /\ doc = "paginated"
    /\ QueryAnswered(c)
    /\ proc[c].response.status = 200
    /\ "undecodable" \notin DOMAIN proc[c].response.body
    /\ "errors" \notin DOMAIN proc[c].response.body
    /\ "data" \in DOMAIN proc[c].response.body
    /\ ~Resolves(proc[c].response.body.data)

\* C11: a page response in which the document's path, or pageInfo with its
\* endCursor and hasNextPage, is not found ends the page sequence with an
\* error at that page: the step that receives it raises KeyError and finishes
\* the generator; it yields nothing, records no page, and leaves the cursor
\* as it was (the page is not taken for an empty page).
UnresolvedPageFailsSequence ==
    [][\A c \in Procs :
          UnresolvedPage(c)' =>
              /\ FailedWith(c, "KeyError")'
              /\ proc'[c].result.kind # "yield"
              /\ yields' = yields
              /\ served' = served
              /\ paginator' = paginator
              /\ hist'.pages = hist.pages]_vars

\* the second page of a sequence came without pageInfo, after a first page
\* was yielded
SecondPageUnresolved ==
    \E c \in Procs :
        /\ UnresolvedPage(c)
        /\ proc[c].response.body.data = [user |-> [items |-> [totalCount |-> 0]]]
        /\ FailedWith(c, "KeyError")
        /\ yields = 1
        /\ paginator = [has_next |-> TRUE, end_cursor |-> "C1"]


(***************************************************************************)
(* Properties of the cursor.                                               *)
(***************************************************************************)
\* the step sends an HTTP request for caller c
HttpSent(c) ==
    \/ proc'[c].nProbe = proc[c].nProbe + 1
    \/ proc'[c].nQuery = proc[c].nQuery + 1

\* C12: has_next changes only in the step in which the page sequence applies
\* the hasNextPage of the page it received, and once has_next is FALSE the
\* document is exhausted: no step changes the cursor, sends a request, enters
\* a probe, a wait or a query, or yields a payload; a new execute on it ends
\* without a payload and without an HTTP call.
ExhaustedStaysExhausted ==
    [][/\ paginator'.has_next # paginator.has_next =>
             \E c \in Procs :
                 /\ proc[c].pc = "query"
                 /\ proc'[c].pc = "yielded"
                 /\ paginator'.has_next =
                        proc'[c].result.value.user.items.pageInfo.hasNextPage
       /\ (doc = "paginated" /\ ~paginator.has_next) =>
             /\ paginator' = paginator
             /\ yields' = yields
             /\ hist'.calls = <<>> \/ hist'.calls = hist.calls
             /\ \A c \in Procs :
                   /\ ~HttpSent(c)
                   /\ proc'[c].pc \notin {"probe", "sleep", "query"}
                   /\ proc'[c].result.kind \in {"yield", "raise", "return"}
                         => proc'[c] = proc[c]]_vars

\* a second execute on a document exhausted by the first one ended at once:
\* it made no call and yielded no page
ExhaustedReExecuted ==
    \E c \in Procs :
        /\ doc = "paginated"
        /\ ~paginator.has_next
        /\ executes = 2
        /\ yields >= 1
        /\ Drained(c)
        /\ hist = NoHistory


(***************************************************************************)
(* Properties of the order of requests within a cycle.                     *)
(***************************************************************************)
\* the step sends an attempt of the real query for caller c
QuerySent(c) == proc'[c].nQuery = proc[c].nQuery + 1

\* the step takes caller c into the real query's call
QueryEntered(c) == proc[c].pc # "query" /\ proc'[c].pc = "query"

\* C13: an attempt of the real query is sent only from within the real
\* query's call, after at least one probe attempt of the same cycle; and the
\* call is entered either straight from a probe whose answer satisfied
\* retry_attempts * cost <= remaining, or from the throttle wait, with the
\* clock then past the reset_at that the probe reported.
QueryOnlyWithinBudgetOrAfterWait ==
    [][\A c \in Procs :
          /\ QuerySent(c) =>
                /\ proc[c].pc = "query"
                /\ proc[c].nProbe >= 1
                /\ proc'[c].nProbe = proc[c].nProbe
          /\ QueryEntered(c) =>
                \/ /\ proc[c].pc = "probe"
                   /\ proc'[c].nProbe = proc[c].nProbe + 1
                   /\ ~proc'[c].no_limit
                   /\ retry_attempts * proc'[c].rate_limit.cost
                         <= proc'[c].rate_limit.remaining
                \/ /\ proc[c].pc = "sleep"
                   /\ proc[c].nProbe >= 1
                   /\ retry_attempts * proc[c].rate_limit.cost
                         > proc[c].rate_limit.remaining
                   /\ now' > strptime(proc[c].reset_at)
                   /\ now' >= now]_vars

\* the real query's first attempt is about to follow a wait that ended 5
\* seconds past the reset_at 00:30 of a probe with 3 * 40 > 100
QueryAfterWait ==
    \E c \in Procs :
        /\ proc[c].pc = "query"
        /\ proc[c].no_limit
        /\ proc[c].nProbe >= 1
        /\ proc[c].nQuery = 0
        /\ retry_attempts = 3
        /\ now = 35


(***************************************************************************)
(* Properties of the throttle wait.                                        *)
(***************************************************************************)
\* caller c is in the throttle wait for a well-formed reset_at
Waiting(c) == proc[c].pc = "sleep" /\ strptime(proc[c].reset_at) >= 0

\* C14: when the throttle is engaged, for any well-formed reset_at of the
\* probe, the step that follows sleeps (reset_at - now) + 5 seconds and
\* enters the real query's call: it raises nothing and no further probe
\* attempt is made.
ThrottleWaitsThenQueries ==
    [][\A c \in Procs :
          (Waiting(c) /\ proc'[c] # proc[c]) =>
              /\ proc'[c].pc = "query"
              /\ proc'[c].result.kind # "raise"
              /\ now' = now + (strptime(proc[c].reset_at) - now) + SleepMargin
              /\ proc'[c].nProbe = proc[c].nProbe
              /\ proc'[c].nQuery = 0]_vars

\* the same, for a reset_at that is not more than 5 seconds before the
\* current time
ThrottleWaitsThenQueriesUnlessPast ==
    [][\A c \in Procs :
          (/\ Waiting(c)
           /\ strptime(proc[c].reset_at) + SleepMargin >= now
           /\ retry_attempts >= 1
           /\ proc'[c] # proc[c]) =>
              /\ proc'[c].pc = "query"
              /\ proc'[c].result.kind # "raise"
              /\ now' = now + (strptime(proc[c].reset_at) - now) + SleepMargin
              /\ proc'[c].nProbe = proc[c].nProbe
              /\ proc'[c].nQuery = 0]_vars


(***************************************************************************)
(* Properties of an exhausted retry budget.                                *)
(***************************************************************************)
\* a retry-wrapped call of caller c used up its retry_attempts attempts, at
\* least one of them answered, none of the answers being a 200
ExhaustedWithAnswer(c) ==
    /\ proc[c].pc = "done"
    /\ proc[c].result.kind = "raise"
    /\ retry_attempts >= 1
    /\ proc[c].attempts = retry_attempts
    /\ proc[c].last # "neterr"
    /\ proc[c].answered >= 1
    /\ proc[c].response.status # 200

\* C15: a retry-wrapped call fails with Timeout only when all retry_attempts
\* attempts timed out; a call that used up its attempts with at least one
\* non-200 answer fails with a QueryFailedException holding the last
\* response.
TimeoutOnlyWhenAllTimedOut ==
    \A c \in Procs :
        /\ FailedWith(c, "Timeout") => proc[c].timeouts = retry_attempts
        /\ ExhaustedWithAnswer(c) =>
              /\ FailedWith(c, "QueryFailedException")
              /\ proc[c].result.exc.response = proc[c].response

\* what the code does: one timeout among the attempts is enough for Timeout
TimeoutWhenAnyTimedOut ==
    \A c \in Procs :
        /\ FailedWith(c, "Timeout") => proc[c].timeouts >= 1
        /\ ExhaustedWithAnswer(c) =>
              IF proc[c].timeouts >= 1
              THEN FailedWith(c, "Timeout")
              ELSE /\ FailedWith(c, "QueryFailedException")
                   /\ proc[c].result.exc.response = proc[c].response


(***************************************************************************)
(* Properties of the order of calls.                                       *)
(***************************************************************************)
\* the text between "query {" and the closing "}" of the document as it
\* renders now
CurrentContent ==
    LET text == get_query(doc, paginator)
    IN  SubSeq(text, 3, Len(text) - 1)

\* a dry-run cost probe around the body `content`
DryrunProbe(content) ==
    <<"query", "{">> \o content
        \o <<"rateLimit", "(", "dryrun", ":", "true", ")", "{",
             "cost", "remaining", "resetAt", "}", "}">>

\* calls 1, 3, 5, .. are probes and calls 2, 4, 6, .. are real queries
Alternating(calls) ==
    \A i \in 1..Len(calls) :
        calls[i] = IF i % 2 = 1 THEN "probe" ELSE "query"

\* C16: the request sent by a cost probe is the dry-run probe (dryrun: true)
\* around the document's current rendering; within a cycle the real query is
\* sent only after the probe; and the calls of one execute alternate probe,
\* query, probe, query: when n pages have been yielded, n probe calls and n
\* query calls have been made.
ProbeBeforeEveryQuery ==
    \A c \in Procs :
        /\ (proc[c].pc = "probe" /\ proc[c].nProbe >= 1) =>
              proc[c].sent = DryrunProbe(CurrentContent)
        /\ proc[c].nQuery >= 1 => proc[c].nProbe >= 1
        /\ Alternating(hist.calls)
        /\ (doc = "paginated" /\ (proc[c].pc = "yielded" \/ Drained(c))) =>
              /\ Len(hist.calls) = 2 * hist.pages
              /\ Len(SelectSeq(hist.calls, LAMBDA x : x = "probe")) = hist.pages
              /\ Len(SelectSeq(hist.calls, LAMBDA x : x = "query")) = hist.pages

\* two pages were drained with the calls probe, query, probe, query
TwoPagesTwoProbes ==
    \E c \in Procs :
        /\ doc = "paginated"
        /\ Drained(c)
        /\ hist.pages = 2
        /\ hist.calls = <<"probe", "query", "probe", "query">>


(***************************************************************************)
(* Properties of the request budget of a cycle.                            *)
(***************************************************************************)
\* caller c's cycle ended by raising an error
Raised(c) == proc[c].pc = "done" /\ proc[c].result.kind = "raise"

\* C17: no step takes a cycle over its budget: after every step the cycle has
\* sent at most retry_attempts probe attempts and at most retry_attempts
\* query attempts, at most 2 * retry_attempts requests in all; and a caller
\* whose cycle raised an error sends no further request for that cycle.
CycleWithinTwiceTheBudget ==
    [][\A c \in Procs :
          /\ proc'[c].nProbe <= retry_attempts'
          /\ proc'[c].nQuery <= retry_attempts'
          /\ proc'[c].nProbe + proc'[c].nQuery <= 2 * retry_attempts'
          /\ HttpSent(c) =>
                /\ ~Raised(c)
                /\ proc[c].pc \in {"probe", "query"}
          /\ (Raised(c) /\ proc'[c] # proc[c]) =>
                /\ proc'[c].nProbe = 0
                /\ proc'[c].nQuery = 0
                /\ executes' = executes + 1]_vars

\* a cycle that used its whole budget of 2 * 3 requests and then raised
WholeBudgetUsed ==
    \E c \in Procs :
        /\ retry_attempts = 3
        /\ proc[c].nProbe = 3
        /\ proc[c].nQuery = 3
        /\ Raised(c)


(***************************************************************************)
(* Properties of the page sequence's laziness.                             *)
(***************************************************************************)
\* the step is a call of execute
ExecuteCalled == executes' = executes + 1

\* the step is caller c asking its page sequence for the next element
NextAsked(c) ==
    /\ proc[c].pc \in {"gen", "yielded"}
    /\ proc'[c].pc \notin {"gen", "yielded"}

\* C18: a call of execute on a paginated document sends no request and starts
\* no cycle: it leaves a page sequence that has made no call.  A page cycle
\* is started only by the consumer asking for the next element, a request is
\* sent only within such a cycle, and the step that yields the element
\* completes exactly one probe call and one query call of that cycle: the
\* calls of the sequence are then two per element, ending probe, query.
PageSequenceIsLazy ==
    [][\A c \in Procs :
          /\ (doc = "paginated" /\ ExecuteCalled /\ proc'[c] # proc[c]) =>
                /\ proc'[c].pc = "gen"
                /\ ~HttpSent(c)
                /\ proc'[c].nProbe = 0 /\ proc'[c].nQuery = 0
                /\ hist'.calls = <<>>
          /\ (doc = "paginated" /\ proc[c].pc # "probe" /\ proc'[c].pc = "probe")
                => NextAsked(c) /\ ~HttpSent(c)
          /\ (doc = "paginated" /\ HttpSent(c)) =>
                proc[c].pc \in {"probe", "query"}
          /\ (proc[c].pc \in {"gen", "yielded"} /\ proc'[c] # proc[c]) =>
                /\ hist'.calls = hist.calls
                /\ hist'.pages = hist.pages
          /\ (proc[c].pc = "query" /\ proc'[c].pc = "yielded") =>
                /\ hist'.pages = hist.pages + 1
                /\ Len(hist'.calls) = 2 * hist'.pages
                /\ SubSeq(hist'.calls, Len(hist'.calls) - 1, Len(hist'.calls))
                      = <<"probe", "query">>]_vars

\* execute has returned the page sequence of a fresh document and the
\* consumer has not asked for an element: no call has been made
SequenceNotStarted ==
    \E c \in Procs :
        /\ doc = "paginated"
        /\ proc[c].pc = "gen"
        /\ paginator = NewPaginator
        /\ executes = 1
        /\ hist.calls = <<>>
        /\ proc[c].nProbe = 0
        /\ proc[c].nQuery = 0


(***************************************************************************)
(* Properties of the cursor across pages, for a single consumer.           *)
(***************************************************************************)
\* caller c is inside a page cycle
InCycle(c) == proc[c].pc \in {"probe", "sleep", "query"}

\* the end_cursor that a rendered page request asks the server to start after
AfterOf(text) == text[6]

\* C19: with a single consumer, the cursor changes only in the step that
\* yields a page, to the endCursor and hasNextPage of that page; a page cycle
\* renders its request from the cursor as it is when the consumer asks, that
\* is, from the end_cursor of the page yielded last (none before the first
\* page); probe and real query of a cycle are rendered from that same cursor,
\* and so is every request sent; and the cycle after a page whose endCursor
\* differs from the one it was requested with asks for a different cursor.
NextPageUsesUpdatedCursor ==
    [][\A c \in Procs :
          /\ paginator' # paginator =>
                /\ proc[c].pc = "query" /\ proc'[c].pc = "yielded"
                /\ LET info == proc'[c].result.value.user.items.pageInfo
                   IN  /\ paginator'.end_cursor = info.endCursor
                       /\ paginator'.has_next = info.hasNextPage
          /\ (doc = "paginated" /\ InCycle(c)') =>
                /\ proc'[c].rendered = get_query("paginated", paginator')
                /\ AfterOf(proc'[c].rendered) = paginator'.end_cursor
                /\ proc'[c].query = proc'[c].rendered
                /\ proc'[c].sent # <<>> =>
                      proc'[c].sent = IF proc'[c].pc = "query"
                                      THEN proc'[c].rendered
                                      ELSE DryrunProbe(SubSeq(proc'[c].rendered, 3, 6))
          /\ (doc = "paginated" /\ proc[c].pc = "yielded" /\ InCycle(c)') =>
                /\ AfterOf(proc'[c].rendered)
                      = proc[c].result.value.user.items.pageInfo.endCursor
                /\ AfterOf(proc[c].query) # paginator.end_cursor
                      => proc'[c].rendered # proc[c].query]_vars

\* the real query of the second page is about to be sent, rendered after the
\* end_cursor "C1" that the first page reported
SecondPageAfterFirstCursor ==
    \E c \in Procs :
        /\ doc = "paginated"
        /\ proc[c].pc = "query"
        /\ yields = 1
        /\ paginator = [has_next |-> TRUE, end_cursor |-> "C1"]
        /\ proc[c].query = <<"query", "{", "user", "items", "after", "C1", "}">>
        /\ proc[c].rendered = proc[c].query


(***************************************************************************)
(* Two consumers of one paginated document.                                *)
(*                                                                         *)
(* A client with retry_attempts = 1 and one PaginatedQuery exist; two      *)
(* callers execute it and drive their page sequences in any interleaving   *)
(* of their steps.  The server answers every probe within budget, or not   *)
(* at all, and every real query with a well-formed page.                   *)
(***************************************************************************)
Consumers == {1, 2}

ConcProbeOutcomes ==
    {Timeout, Answer(Response(200, RateLimitBody(1, 100, <<0, 30>>)))}

ConcQueryOutcomes ==
    {Timeout} \cup {Answer(Response(200, [data |-> d])) : d \in GoodPageData}

InitConc ==
    /\ client = client_init("token")
    /\ authenticator = "token"
    /\ retry_attempts = 1
    /\ doc = "paginated"
    /\ paginator = NewPaginator
    /\ proc = [c \in Consumers |-> IdleProc]
    /\ now = Now0
    /\ executes = 0
    /\ served = <<>>
    /\ yields = 0
    /\ hist = NoHistory
    /\ pure = NoPure
    /\ miner = NoMiner

NextConc ==
    \E c \in Consumers :
        \/ Execute(c)
        \/ NextPage(c)
        \/ \E o \in ConcProbeOutcomes : ProbeAttempt(c, o)
        \/ \E o \in ConcQueryOutcomes : QueryAttempt(c, o)

SpecConc == InitConc /\ [][NextConc]_vars

\* the step gives the real query of consumer c a 200 answer with a page
\* whose path and pageInfo resolve
PageReceived(c) ==
    /\ proc[c].pc = "query"
    /\ proc'[c].nQuery = proc[c].nQuery + 1
    /\ proc'[c].response.status = 200
    /\ "data" \in DOMAIN proc'[c].response.body
    /\ "errors" \notin DOMAIN proc'[c].response.body
    /\ Resolves(proc'[c].response.body.data)

\* C20: nothing guards the shared cursor: whenever a consumer's real query is
\* answered with a page, the page is yielded and its pageInfo overwrites the
\* cursor, whatever the cursor has become since the consumer rendered its
\* request (no comparison with the end_cursor the request was rendered from);
\* and a consumer's page cycle starts from the cursor as it is, whether or
\* not the other consumer is inside a cycle rendered from the same cursor.
SharedCursorUnguarded ==
    [][\A c \in Consumers :
          /\ PageReceived(c) =>
                LET page == proc'[c].response.body.data
                    info == page.user.items.pageInfo
                IN  /\ proc'[c].pc = "yielded"
                    /\ proc'[c].result = Yield(page)
                    /\ yields' = yields + 1
                    /\ served' = Append(served, info.hasNextPage)
                    /\ paginator' = [has_next |-> info.hasNextPage,
                                     end_cursor |-> info.endCursor]
          /\ (proc[c].pc \in {"gen", "yielded"} /\ InCycle(c)') =>
                /\ proc'[c].rendered = get_query("paginated", paginator)
                /\ paginator' = paginator]_vars

\* the stale-cursor replay: both consumers rendered their real query from the
\* end_cursor of the new document, before any update was applied, and each
\* was given, and yielded, the first page
SamePageYieldedTwice ==
    /\ \A c \in Consumers :
          /\ proc[c].pc = "yielded"
          /\ proc[c].query = get_query("paginated", NewPaginator)
          /\ proc[c].result = Yield(PageData("C1", TRUE))
    /\ yields = 2
    /\ served = <<TRUE, TRUE>>
    /\ paginator = [has_next |-> TRUE, end_cursor |-> "C1"]


(***************************************************************************)
(* Properties of the retry budget of a constructed client.                 *)
(***************************************************************************)
\* C21: every constructed client has retry_attempts >= 1, so that a cycle
\* that raised an error made at least one HTTP attempt before it did.
ConstructedClientHasBudget ==
    /\ client = "ok" => retry_attempts >= 1
    /\ \A c \in Procs : Raised(c) => proc[c].nProbe >= 1

\* the same, for the clients that were given a budget of at least one attempt
BudgetedCallAttemptsOnce ==
    retry_attempts >= 1 =>
        \A c \in Procs : Raised(c) => proc[c].nProbe >= 1

\* what the code does with retry_attempts = 0: the probe's call makes no
\* attempt and fails while building its QueryFailedException
NoBudgetFailsWithoutAttempt ==
    (client = "ok" /\ retry_attempts = 0) =>
        \A c \in Procs :
            /\ proc[c].nProbe = 0
            /\ proc[c].nQuery = 0
            /\ proc[c].pc \in {"idle", "gen", "done"}
            /\ Raised(c) => FailedWith(c, "AttributeError")


(***************************************************************************)
(* The mining run: driver.py main and UserMetricsMiner                     *)
(* (app/metrics_miner/user_metrics_miner.py).                              *)
(*                                                                         *)
(* The driver mines the users of its list one after another.  What the     *)
(* try block of fetch_user_profile_stats ends in is chosen per user: the   *)
(* profile stats of the user, one of the client's two errors, or the       *)
(* TypeError of a call that does not match the signature of its callee.    *)
(***************************************************************************)
MaxUsers == 3

Logins == {"octocat", "hubot"}

UserLists == UNION {[1..n -> Logins] : n \in 0..MaxUsers}

CoreErrors == {"QueryFailedException", "Timeout"}

\* what the try block of fetch_user_profile_stats can end in
\* (user_metrics_miner.py:44-49)
MineOutcomes == {"stats", "TypeError"} \cup CoreErrors

\* except QueryFailedException (user_metrics_miner.py:50)
miner_catches(exc) == exc = "QueryFailedException"

\* UserMetricsMiner.fetch_user_profile_stats (user_metrics_miner.py:34-52)
fetch_user_profile_stats(m, login, o) ==
    IF o = "stats"
    THEN [m EXCEPT !.profile_stats = login]
    ELSE IF miner_catches(o)
    THEN [m EXCEPT !.exceptions = Append(@, login)]
    ELSE [m EXCEPT !.error = o]

\* UserMetricsMiner.mine up to its use of the profile stats
\* (user_metrics_miner.py:124-125): profile_stats is {} until a fetch succeeds
mine(m, login, o) ==
    LET f == fetch_user_profile_stats(m, login, o)
    IN  IF f.error # None
        THEN f
        ELSE IF f.profile_stats = "empty"
        THEN [f EXCEPT !.error = "KeyError"]
        ELSE f

\* driver.py:70-92: the list of users is read, client and miner are built
InitMine ==
    /\ client = client_init("token")
    /\ authenticator = "token"
    /\ retry_attempts = 3
    /\ doc = "none"
    /\ paginator = NewPaginator
    /\ proc = [c \in {1} |-> IdleProc]
    /\ now = Now0
    /\ executes = 0
    /\ served = <<>>
    /\ yields = 0
    /\ hist = NoHistory
    /\ pure = NoPure
    /\ miner \in {[run |-> IF us = <<>> THEN "finished" ELSE "running",
                   users |-> us, idx |-> 0, data |-> 0,
                   profile_stats |-> "empty", exceptions |-> <<>>,
                   last |-> "none", error |-> None] : us \in UserLists}

\* one iteration of the driver's loop (driver.py:93-94): nothing catches what
\* mine raises
MineUser(o) ==
    /\ miner.run = "running"
    /\ LET login == miner.users[miner.idx + 1]
           m == mine([miner EXCEPT !.last = o, !.idx = @ + 1], login, o)
       IN  miner' = IF m.error # None
                    THEN [m EXCEPT !.run = "aborted"]
                    ELSE [m EXCEPT !.data = @ + 1,
                                   !.run = IF m.idx = Len(m.users)
                                           THEN "finished"
                                           ELSE "running"]
    /\ UNCHANGED <<client, authenticator, retry_attempts, doc, paginator, proc,
                   now, executes, served, yields, pure, hist>>

NextMine == \E o \in MineOutcomes : MineUser(o)

SpecMine == InitMine /\ [][NextMine]_vars

RunSurvivesOnlyWithStoredStats ==
    (miner.run # "none" /\ miner.last # "none") =>
        (miner.run # "aborted" <=>
            /\ miner.last \in {"stats", "QueryFailedException"}
            /\ miner.profile_stats # "empty")


(***************************************************************************)
(* created_before_time of UserCommitComments, UserGists and                *)
(* UserPullRequests (the three bodies are the same).                       *)
(***************************************************************************)
MaxItems == 3
MaxTime == 3

Times == 1..MaxTime

\* lists of items, each with its createdAt
ItemLists == UNION {[1..n -> [createdAt : Times]] : n \in 0..MaxItems}

\* helper.created_before(created_at, time)
created_before(created_at, time) == created_at < time

\* created_before_time(items, time) (user_commit_comments.py:73-79,
\* user_gists.py:73-79, user_pull_requests.py:74-80): the loop leaves at the
\* first item that was not created before `time`
RECURSIVE created_before_time(_, _)
created_before_time(items, time) ==
    IF items = <<>>
    THEN 0
    ELSE IF created_before(Head(items).createdAt, time)
    THEN 1 + created_before_time(Tail(items), time)
    ELSE 0

InitCreated ==
    /\ ClientInit
    /\ miner = NoMiner
    /\ pure \in {[fn |-> "created_before_time", items |-> l, time |-> t,
                  done |-> FALSE, out |-> 0] : l \in ItemLists, t \in Times}

CountCreatedBefore ==
    /\ pure.fn = "created_before_time"
    /\ ~pure.done
    /\ pure' = [pure EXCEPT !.done = TRUE,
                            !.out = created_before_time(pure.items, pure.time)]
    /\ UNCHANGED <<client, authenticator, retry_attempts, doc, paginator, proc,
                   now, executes, served, yields, hist, miner>>

NextCreated == CountCreatedBefore

SpecCreated == InitCreated /\ [][NextCreated]_vars

\* the number of items of the list created before the time
NumberBefore(items, time) ==
    Cardinality({i \in 1..Len(items) : items[i].createdAt < time})

\* the list is in ascending order of createdAt
Ascending(items) ==
    \A i, j \in 1..Len(items) : i < j => items[i].createdAt <= items[j].createdAt

\* C23: created_before_time returns the number of items of the list whose
\* createdAt is before the given time, whatever the order of the list.
CountsAllCreatedBefore ==
    (pure.fn = "created_before_time" /\ pure.done) =>
        pure.out = NumberBefore(pure.items, pure.time)

\* what the code does: it counts the items in front of the first one that was
\* not created before the time; that is all of them when the list ascends
CountsLeadingCreatedBefore ==
    (pure.fn = "created_before_time" /\ pure.done) =>
        /\ pure.out <= NumberBefore(pure.items, pure.time)
        /\ \A i \in 1..pure.out : pure.items[i].createdAt < pure.time
        /\ pure.out < Len(pure.items) =>
              pure.items[pure.out + 1].createdAt >= pure.time
        /\ Ascending(pure.items) =>
              pure.out = NumberBefore(pure.items, pure.time)


(***************************************************************************)
(* RepositoryCommits.commits_list                                          *)
(* (app/github_query/queries/repositories/repository_commits.py).          *)
(***************************************************************************)
MaxNodes == 2

AuthorNames == {"ann", "bob"}

\* author.user of a commit node: an object with a login, an object without
\* one, or null (the author's email belongs to no GitHub user)
NoLogin == [nologin |-> TRUE]
Null == [null |-> TRUE]
AuthorUsers == {[login |-> "ann-gh"], NoLogin, Null}

\* commit nodes: number of parents, author name and user, additions
CommitNodes ==
    [parents : {1, 2}, name : AuthorNames, user : AuthorUsers, additions : {1}]

CommitPages(n) == UNION {[1..k -> CommitNodes] : k \in 0..n}

\* d[k] = v for a Python dict d
Put(d, k, v) == [x \in DOMAIN d \cup {k} |-> IF x = k THEN v ELSE d[x]]

\* the entry of a first commit (repository_commits.py:137-142)
NewTotals(node) ==
    [total_additions |-> node.additions, total_deletions |-> 0,
     total_files |-> 0, total_commits |-> 1]

\* the += of repository_commits.py:154-160, 169-172
AddTotals(t, node) ==
    [t EXCEPT !.total_additions = @ + node.additions,
              !.total_commits = @ + 1]

\* node.get("author", {}).get("user", {}).get("login", "")
\* (repository_commits.py:129): None has no get
login_of(node) ==
    IF node.user = Null
    THEN [error |-> "AttributeError"]
    ELSE IF node.user = NoLogin
    THEN [error |-> None, login |-> ""]
    ELSE [error |-> None, login |-> node.user.login]

\* the body of the loop for one node with fewer than 2 parents
\* (repository_commits.py:128-177)
accumulate(cum, node, login) ==
    LET name == node.name
    IN  IF name \notin DOMAIN cum
        THEN IF login # ""
             THEN Put(cum, name, Put(<<>>, login, NewTotals(node)))
             ELSE Put(cum, name, NewTotals(node))
        ELSE IF login # ""
        THEN IF login \in DOMAIN cum[name]
             THEN Put(cum, name, Put(cum[name], login,
                                     AddTotals(cum[name][login], node)))
             ELSE Put(cum, name, Put(cum[name], login, NewTotals(node)))
        ELSE IF "total_additions" \in DOMAIN cum[name]
        THEN Put(cum, name,
                 [k \in DOMAIN cum[name] |->
                     IF k = "total_additions" THEN cum[name][k] + node.additions
                     ELSE IF k = "total_commits" THEN cum[name][k] + 1
                     ELSE cum[name][k]])
        ELSE Put(cum, name,
                 [k \in DOMAIN cum[name] \cup DOMAIN NewTotals(node) |->
                     IF k \in DOMAIN NewTotals(node)
                     THEN NewTotals(node)[k]
                     ELSE cum[name][k]])

\* commits_list(raw_data, cumulative_commits) on the nodes of raw_data
\* (repository_commits.py:101-181)
RECURSIVE commits_list(_, _)
commits_list(nodes, cum) ==
    IF nodes = <<>>
    THEN [error |-> None, commits |-> cum]
    ELSE IF Head(nodes).parents < 2
    THEN LET l == login_of(Head(nodes))
         IN  IF l.error # None
             THEN [error |-> l.error, commits |-> cum]
             ELSE commits_list(Tail(nodes), accumulate(cum, Head(nodes), l.login))
    ELSE commits_list(Tail(nodes), cum)

NotCalled == [error |-> "pending", commits |-> <<>>]

InitCommits ==
    /\ ClientInit
    /\ miner = NoMiner
    /\ pure \in {[fn |-> "commits_list", first |-> p, second |-> q,
                  after_first |-> NotCalled, after_second |-> NotCalled,
                  in_one_call |-> NotCalled] :
                    p \in CommitPages(MaxNodes), q \in CommitPages(1)}

\* commits_list(first page)
FirstPage ==
    /\ pure.fn = "commits_list"
    /\ pure.after_first = NotCalled
    /\ pure' = [pure EXCEPT !.after_first = commits_list(pure.first, <<>>)]
    /\ UNCHANGED <<client, authenticator, retry_attempts, doc, paginator, proc,
                   now, executes, served, yields, hist, miner>>

\* commits_list(second page, result of the first call)
SecondPage ==
    /\ pure.fn = "commits_list"
    /\ pure.after_first.error = None
    /\ pure.after_second = NotCalled
    /\ pure' = [pure EXCEPT !.after_second =
                   commits_list(pure.second, pure.after_first.commits)]
    /\ UNCHANGED <<client, authenticator, retry_attempts, doc, paginator, proc,
                   now, executes, served, yields, hist, miner>>

\* commits_list(the nodes of both pages)
BothPagesInOneCall ==
    /\ pure.fn = "commits_list"
    /\ pure.after_first # NotCalled
    /\ pure.in_one_call = NotCalled
    /\ pure' = [pure EXCEPT !.in_one_call =
                   commits_list(pure.first \o pure.second, <<>>)]
    /\ UNCHANGED <<client, authenticator, retry_attempts, doc, paginator, proc,
                   now, executes, served, yields, hist, miner>>

NextCommits == FirstPage \/ SecondPage \/ BothPagesInOneCall

SpecCommits == InitCommits /\ [][NextCommits]_vars


TotalsKeys == DOMAIN NewTotals([additions |-> 0])

\* the total_commits an entry of one author name contributes under key k
EntryCommits(entry, k) ==
    IF k = "total_commits" THEN entry[k]
    ELSE IF k \in TotalsKeys THEN 0
    ELSE entry[k].total_commits

RECURSIVE NameCommits(_, _)
NameCommits(entry, keys) ==
    IF keys = {} THEN 0
    ELSE LET k == CHOOSE x \in keys : TRUE
         IN  EntryCommits(entry, k) + NameCommits(entry, keys \ {k})

RECURSIVE SumNames(_, _)
SumNames(cum, names) ==
    IF names = {} THEN 0
    ELSE LET n == CHOOSE x \in names : TRUE
         IN  NameCommits(cum[n], DOMAIN cum[n]) + SumNames(cum, names \ {n})

\* the sum of total_commits over all author entries
SumCommits(cum) == SumNames(cum, DOMAIN cum)

RECURSIVE FewParents(_)
FewParents(nodes) ==
    IF nodes = <<>> THEN 0
    ELSE (IF Head(nodes).parents < 2 THEN 1 ELSE 0) + FewParents(Tail(nodes))

HasNullUser(nodes) ==
    \E i \in 1..Len(nodes) : nodes[i].parents < 2 /\ nodes[i].user = Null

FirstProcessed == pure.fn = "commits_list" /\ pure.after_first # NotCalled

\* C24: once a page has been handed to commits_list, the sum of total_commits
\* over all author entries has grown by exactly the number of commits with
\* fewer than 2 parents in the page, and feeding the pages one after another
\* gives the result of one call on the concatenation of their nodes.
CommitsCountedPageByPage ==
    FirstProcessed =>
        /\ pure.after_first.error = None
        /\ SumCommits(pure.after_first.commits) = FewParents(pure.first)
        /\ pure.after_second # NotCalled =>
              /\ pure.after_second.error = None
              /\ SumCommits(pure.after_second.commits)
                   = SumCommits(pure.after_first.commits)
                       + FewParents(pure.second)
              /\ pure.in_one_call # NotCalled =>
                    pure.in_one_call = pure.after_second

\* C24 lemma: the statement holds for pages in which every counted commit's
\* author.user is an object.
CommitsCountedWhenUsersPresent ==
    (FirstProcessed /\ ~HasNullUser(pure.first \o pure.second)) =>
        /\ pure.after_first.error = None
        /\ SumCommits(pure.after_first.commits) = FewParents(pure.first)
        /\ pure.after_second # NotCalled =>
              /\ pure.after_second.error = None
              /\ SumCommits(pure.after_second.commits)
                   = SumCommits(pure.after_first.commits)
                       + FewParents(pure.second)
              /\ pure.in_one_call # NotCalled =>
                    pure.in_one_call = pure.after_second

\* C24 lemma: a counted commit whose author.user is null makes the call raise.
NullUserRaises ==
    (FirstProcessed /\ HasNullUser(pure.first)) =>
        pure.after_first.error = "AttributeError"


(***************************************************************************)
(* TeamBuilder (app/team_builder/team_builder.py).  The clustering is an   *)
(* external routine: its labels, one per row and each in 0..n_teams-1, are *)
(* an input here.                                                          *)
(***************************************************************************)
MaxRows == 3
MaxTeams == 2

Identifiers == {"ann", "bob", "cat"}

IdentifierLists == UNION {[1..k -> Identifiers] : k \in 0..MaxRows}

\* every identifier lands in the first team
form_teamsFirstTeam(identifiers, n_teams, labels) ==
    [t \in 1..n_teams |-> IF t = 1 THEN identifiers ELSE <<>>]

\* teams = [[] for _ in range(n_teams)]; for identifier, label in
\* zip(self.identifiers, labels): teams[label].append(identifier)
\* (team_builder.py:57-61); teams[label] is the (label+1)-th element here
RECURSIVE append_rows(_, _, _)
append_rows(teams, identifiers, labels) ==
    IF identifiers = <<>> \/ labels = <<>>
    THEN teams
    ELSE append_rows(
            [teams EXCEPT ![Head(labels) + 1] = Append(@, Head(identifiers))],
            Tail(identifiers), Tail(labels))

form_teams(identifiers, n_teams, labels) ==
    append_rows([t \in 1..n_teams |-> <<>>], identifiers, labels)

InitTeams ==
    /\ ClientInit
    /\ miner = NoMiner
    /\ \E ids \in IdentifierLists, n \in 1..MaxTeams :
         \E labels \in [1..Len(ids) -> 0..(n - 1)] :
            pure = [fn |-> "form_teams", identifiers |-> ids, n_teams |-> n,
                    labels |-> labels, done |-> FALSE, teams |-> <<>>]

\* TeamBuilder(data).form_teams(n_teams)
FormTeams ==
    /\ pure.fn = "form_teams"
    /\ ~pure.done
    /\ pure' = [pure EXCEPT !.done = TRUE,
                   !.teams = form_teams(pure.identifiers, pure.n_teams,
                                        pure.labels)]
    /\ UNCHANGED <<client, authenticator, retry_attempts, doc, paginator, proc,
                   now, executes, served, yields, hist, miner>>

NextTeams == FormTeams

SpecTeams == InitTeams /\ [][NextTeams]_vars

TeamsFormed == pure.fn = "form_teams" /\ pure.done

\* the positions of team t that hold identifier x
Places(t, x) == {j \in 1..Len(pure.teams[t]) : pure.teams[t][j] = x}

\* the rows with identifier x and label t-1
Rows(t, x) ==
    {i \in 1..Len(pure.identifiers) :
        pure.identifiers[i] = x /\ pure.labels[i] = t - 1}

InputIdentifiers == {pure.identifiers[i] : i \in 1..Len(pure.identifiers)}

MaxYears == 2

Days == {y * 365 + d : y \in 0..MaxYears, d \in {0, 1, 364}}

\* helper.add_by_days(date, days)
add_by_days(date, days) == date + days

\* UserContributionsCollection.user_contributions_collection(response)
\* (user_contributions_collection.py:60-96); the other keys carry the same 1
QueriedContributions ==
    [res_con : {0, 1}, commit : {1, 2}, pr_review : {0}, issue : {1}]

ContributionKeys == {"res_con", "commit", "pr_review"}

\* Counter({"res_con": 0, "commit": 0, "pr_review": 0})
NoContributions == [k \in ContributionKeys |-> 0]

\* def execute(self, query) (client.py:223): the keywords a call may pass
ExecuteParameters == {"query"}

\* the keywords fetch_user_contributions passes (user_metrics_miner.py:72-75)
FetchKeywords == {"query", "substitutions"}

\* the client handed to UserMetricsMiner: this repository's Client, or an
\* object whose execute takes the keywords the miner passes
MinerClients == {ExecuteParameters, FetchKeywords}

InitContributions ==
    /\ ClientInit
    /\ miner = NoMiner
    /\ \E s \in Days, e \in Days, c \in MinerClients :
          pure = [fn |-> "fetch_user_contributions", accepts |-> c,
                  from |-> s, end |-> e,
                  start |-> s, period_end |-> add_by_days(s, 365),
                  contributions |-> NoContributions,
                  windows |-> <<>>, answers |-> <<>>,
                  done |-> FALSE, error |-> None]

\* one turn of the while loop (user_metrics_miner.py:69-82)
FetchWindow(queried) ==
    /\ pure.fn = "fetch_user_contributions"
    /\ ~pure.done
    /\ pure.start < pure.end
    /\ LET period_end == IF pure.period_end > pure.end
                         THEN pure.end ELSE pure.period_end
       IN  IF ~(FetchKeywords \subseteq pure.accepts)
           THEN pure' = [pure EXCEPT !.period_end = period_end,
                            !.done = TRUE, !.error = "TypeError"]
           ELSE pure' = [pure EXCEPT
                            !.windows = Append(@, <<pure.start, period_end>>),
                            !.answers = Append(@, queried),
                            !.contributions =
                                [k \in DOMAIN @ |-> @[k] + queried[k]],
                            !.start = period_end,
                            !.period_end = add_by_days(period_end, 365)]
    /\ UNCHANGED <<client, authenticator, retry_attempts, doc, paginator, proc,
                   now, executes, served, yields, hist, miner>>

\* return contributions (user_metrics_miner.py:84)
ReturnContributions ==
    /\ pure.fn = "fetch_user_contributions"
    /\ ~pure.done
    /\ ~(pure.start < pure.end)
    /\ pure' = [pure EXCEPT !.done = TRUE]
    /\ UNCHANGED <<client, authenticator, retry_attempts, doc, paginator, proc,
                   now, executes, served, yields, hist, miner>>

NextContributions ==
    \/ \E queried \in QueriedContributions : FetchWindow(queried)
    \/ ReturnContributions

SpecContributions == InitContributions /\ [][NextContributions]_vars

RECURSIVE SumKey(_, _)
SumKey(answers, k) ==
    IF answers = <<>> THEN 0 ELSE Head(answers)[k] + SumKey(Tail(answers), k)

\* the windows queried so far are contiguous from the start, each at most
\* 365 days long
WindowsContiguous ==
    LET w == pure.windows
    IN  /\ \A i \in 1..Len(w) : w[i][1] < w[i][2] /\ w[i][2] - w[i][1] <= 365
        /\ Len(w) > 0 => w[1][1] = pure.from
        /\ \A i \in 1..(Len(w) - 1) : w[i + 1][1] = w[i][2]

Fetching == pure.fn = "fetch_user_contributions"

\* C26: a call with start < end ends by returning, after one query per
\* window, the windows being contiguous, at most 365 days long, from start to
\* exactly end, and the result being the sum of res_con, commit and pr_review
\* over the windows; a call with start >= end makes no query and returns
\* all-zero counts.
ContributionsSummedOverWindows ==
    (Fetching /\ pure.done) =>
        /\ pure.error = None
        /\ WindowsContiguous
        /\ pure.from < pure.end =>
              /\ Len(pure.windows) > 0
              /\ pure.windows[Len(pure.windows)][2] = pure.end
        /\ pure.from >= pure.end => pure.windows = <<>>
        /\ DOMAIN pure.contributions = ContributionKeys
        /\ \A k \in ContributionKeys :
              pure.contributions[k] = SumKey(pure.answers, k)

\* C26 lemma: the statement holds when the client's execute takes the
\* keywords the miner passes, and whenever start >= end.
ContributionsSummedWhenAccepted ==
    (Fetching /\ pure.done
       /\ (FetchKeywords \subseteq pure.accepts \/ pure.from >= pure.end)) =>
        /\ pure.error = None
        /\ WindowsContiguous
        /\ pure.from < pure.end =>
              /\ Len(pure.windows) > 0
              /\ pure.windows[Len(pure.windows)][2] = pure.end
        /\ pure.from >= pure.end => pure.windows = <<>>
        /\ DOMAIN pure.contributions = ContributionKeys
        /\ \A k \in ContributionKeys :
              pure.contributions[k] = SumKey(pure.answers, k)

\* C26 lemma: with this repository's Client a call with start < end raises
\* TypeError at the first window, before any query is sent.
ClientRejectsSubstitutions ==
    (Fetching /\ pure.done /\ pure.accepts = ExecuteParameters
       /\ pure.from < pure.end) =>
        pure.error = "TypeError" /\ pure.windows = <<>>


(***************************************************************************)
(* Properties of a page sequence that failed, for a single consumer.       *)
(***************************************************************************)
\* the step ends caller c's page cycle by raising
CycleFails(c) == doc = "paginated" /\ ~Raised(c) /\ Raised(c)'

\* C27: the step in which a page cycle fails, whatever the error, leaves the
\* cursor, the pages served and the number of yields as they were, and the
\* request of the failed cycle is the one the cursor still renders; the cursor
\* then stays as it is through a new execute on the document, whose first
\* cycle renders that same request again.
FailedPageIsRequestedAgain ==
    [][\A c \in Procs :
          /\ CycleFails(c) =>
                /\ paginator' = paginator
                /\ served' = served
                /\ yields' = yields
                /\ proc'[c].rendered = get_query(doc, paginator')
          /\ (doc = "paginated" /\ Raised(c)) =>
                /\ paginator' = paginator
                /\ proc'[c] # proc[c] => proc'[c].pc = "gen" /\ ExecuteCalled
          /\ (doc = "paginated" /\ NextAsked(c)
                /\ generator_continues(paginator)) =>
                /\ paginator' = paginator
                /\ proc'[c].rendered = get_query(doc, paginator)]_vars

\* the second page failed, execute was called again and the consumer asked:
\* the cycle under way requests the page after the first page's cursor
SecondPageRequestedAgain ==
    \E c \in Procs :
        /\ doc = "paginated"
        /\ executes = 2
        /\ yields = 1
        /\ hist.pages = 0
        /\ InCycle(c)
        /\ paginator.end_cursor # None
        /\ proc[c].rendered = get_query(doc, paginator)


(***************************************************************************)
(* Properties of a cycle whose cost probe failed.                          *)
(***************************************************************************)
\* the step ends caller c's cycle by raising out of the cost-probe step:
\* while the probe is built, or in or after one of its attempts
ProbeStepFails(c) ==
    /\ proc[c].pc \in {"idle", "done", "gen", "yielded", "probe"}
    /\ ~Raised(c)
    /\ Raised(c)'

\* C28: a step that fails the cost-probe step of a cycle (its attempts used
\* up, a network error, or an error in reading its answer) sends no attempt
\* of the real query and leaves the clock alone, no attempt of the real query
\* was sent and no wait decided earlier in the cycle, and the failed cycle
\* does nothing more (only a new execute starts another one): the real query
\* and the wait are entered from the probe only when its answer was read.
FailedProbeEndsCycle ==
    [][\A c \in Procs :
          /\ ProbeStepFails(c) =>
                /\ ~QuerySent(c)
                /\ proc'[c].nQuery = 0
                /\ ~proc'[c].no_limit
                /\ now' = now
          /\ proc[c].pc = "probe" =>
                /\ proc[c].nQuery = 0
                /\ ~proc[c].no_limit
          /\ Raised(c) =>
                /\ ~HttpSent(c)
                /\ now' = now
                /\ ~ExecuteCalled => proc'[c] = proc[c]
          /\ (proc[c].pc = "probe" /\ proc'[c].pc \in {"sleep", "query"}) =>
                /\ Probed(c)'
                /\ proc'[c].nProbe = proc[c].nProbe + 1]_vars

\* a probe answered 200 without data.rateLimit: the cycle ended in KeyError
\* with no attempt of the real query and the clock where it was
ProbeUnreadableNoQuery ==
    \E c \in Procs :
        /\ FailedWith(c, "KeyError")
        /\ proc[c].nProbe >= 1
        /\ proc[c].nQuery = 0
        /\ proc[c].sent = rate_query(proc[c].query)
        /\ ~proc[c].no_limit
        /\ now = Now0


(***************************************************************************)
(* Properties of the kinds of failure.                                     *)
(***************************************************************************)
\* caller c's cycle failed on the pageInfo path of a page it received
MalformedPagination(c) ==
    /\ doc = "paginated"
    /\ FailedWith(c, "KeyError")
    /\ proc[c].nQuery >= 1
    /\ proc[c].last = "resp"

\* caller c's cycle failed in reading a probe answered with status 200
ProbeAnswerRejected(c) ==
    /\ Raised(c)
    /\ proc[c].nProbe >= 1
    /\ proc[c].nQuery = 0
    /\ ~proc[c].no_limit
    /\ proc[c].last = "resp"
    /\ proc[c].response.status = 200

\* C29: every failure of execute is a QueryFailedException or a Timeout, or,
\* for a page sequence, the failure on a malformed pageInfo path; a cycle
\* that failed in reading a 200 answer of the cost probe failed with a
\* QueryFailedException.
FailuresAreQueryFailedOrTimeout ==
    \A c \in Procs :
        /\ Raised(c) =>
              \/ proc[c].result.exc.type \in {"QueryFailedException", "Timeout"}
              \/ MalformedPagination(c)
        /\ ProbeAnswerRejected(c) => FailedWith(c, "QueryFailedException")

\* C29 lemma: the failures of execute are of these seven types.
FailureTypes ==
    \A c \in Procs :
        Raised(c) =>
            proc[c].result.exc.type \in
                {"QueryFailedException", "Timeout", "KeyError",
                 "JSONDecodeError", "ConnectionError", "ValueError",
                 "AttributeError"}

\* C29 lemma: a probe answered with status 200 that cannot be read fails the
\* cycle with KeyError or JSONDecodeError, never with QueryFailedException,
\* and it is the answer without data.rateLimit or without a JSON body.
ProbeAnswerRejectedAsKeyOrDecodeError ==
    \A c \in Procs :
        ProbeAnswerRejected(c) =>
            /\ proc[c].result.exc.type \in {"KeyError", "JSONDecodeError"}
            /\ proc[c].response.body
                  \in {NoRateLimitBody, ErrorsOnly, Undecodable}


(***************************************************************************)
(* Properties of a network exception other than a timeout.                 *)
(***************************************************************************)
\* C30: when an attempt of a retry-wrapped call raised a network exception
\* other than a timeout, the call has ended at that attempt: the caller has
\* that exception, whatever the earlier attempts ended in, and the attempts
\* made are the ones before it and itself.
NetworkErrorEndsCall ==
    \A c \in Procs :
        proc[c].last = "neterr" =>
            /\ FailedWith(c, "ConnectionError")
            /\ proc[c].attempts = proc[c].timeouts + proc[c].answered + 1
            /\ proc[c].attempts <= retry_attempts

\* the second of three attempts raised a network exception after the first
\* had timed out: the call ended there with that exception
NetworkErrorAfterTimeout ==
    \E c \in Procs :
        /\ proc[c].last = "neterr"
        /\ FailedWith(c, "ConnectionError")
        /\ retry_attempts = 3
        /\ proc[c].timeouts = 1
        /\ proc[c].attempts = 2
=============================================================================
